---- MODULE Spec2Model ----
(***************************************************************************)
(* Attention analysis of paperlab/zoo/vit/exp.py: the two analysis entry   *)
(* points get_attention_maps and get_attention_distance driving the        *)
(* per-layer attention caches, attn_rollout, and the patch-to-pixel        *)
(* expansion done with einops.repeat.                                      *)
(*                                                                         *)
(* Three specifications share the variables:                               *)
(*   Spec        the driver state machine (caches, errors, call order)     *)
(*   SpecRollout attn_rollout on bounded attention matrices                *)
(*   SpecPixel   patch-to-pixel expansion and mean attention distance      *)
(* Attention weights are exact rationals: a matrix is stored as integer    *)
(* numerators over a common denominator.                                   *)
(***************************************************************************)
EXTENDS Integers, Sequences, FiniteSets, TLC

\* ---------------------------------------------------------------- bounds
MaxLayers == 2
MaxBatches == 2
MaxCalls == 2
MaxPatch == 2
MaxImage == 4
MaxTokens == 2
MaxSamples == 2
MaxHeads == 2
MaxArea == 8

VARIABLES
    \* driver (Spec)
    numLayer,     \* number of MultiHeadAttention modules of the model
    patch,        \* <<patch_height, patch_width>> of model.transformer_encoder
    cache,        \* cache[l] = [enabled, attn_map] of the l-th attention module
    pc,           \* position of the running call
    fn,           \* "maps" | "distance" | "none"
    callNo,       \* number of calls started so far
    dataloader,   \* the batches of the current call; TRUE = the encoder accepts it
    image,        \* <<height, width>> of the images of the current dataloader
    bi,           \* index of the next batch
    li,           \* index of the next module of the retrieval loop
    attn_maps,    \* per layer, the tensors retrieved; in SpecPixel attn_maps[i][s][j]
                  \* is the attention matrix of layer i, sample s, head j
    heavy,        \* heavy computations done by the current call
    err,          \* exception raised by the current call
    errAt,        \* step that raised it
    entryClean,   \* every cache was disabled and empty when the call was entered
    result,       \* what the call returned
    \* attn_rollout (SpecRollout)
    attn_matrices, \* the argument: per layer, per sample, one attention matrix
    rollout,       \* the local variable rollout
    rk,            \* index of the next layer of the loop
    rpc,           \* position in attn_rollout
    rerr,          \* exception raised by attn_rollout
    \* patch-to-pixel expansion and mean attention distance (SpecPixel)
    ppc,                     \* position in lines 183-197 / 241-249
    pixel_distance,          \* the local pixel_distance of line 183
    head,                    \* <<i, j>> of the loop of lines 186-187
    head_attn_pixel,         \* per sample, pixel -> pixel -> weight (numerator)
    mean_attention_distance, \* <<i, j>> -> mean distance, for the heads done
    attn_map_pixel           \* per sample, pixel -> weight of the [cls] row

drvVars == <<numLayer, patch, cache, pc, fn, callNo, dataloader, image, bi, li,
             attn_maps, heavy, err, errAt, entryClean, result>>

rollVars == <<attn_matrices, rollout, rk, rpc, rerr>>

pixVars == <<ppc, pixel_distance, head, head_attn_pixel, mean_attention_distance, attn_map_pixel>>

vars == <<drvVars, rollVars, pixVars>>

\* ------------------------------------------------------- attention cache
\* MultiHeadAttention's cache (paperlab/zoo/vit/models.py).
NewCache == [enabled |-> FALSE, attn_map |-> <<>>]

EnableCache(c) == [c EXCEPT !.enabled = TRUE]

DisableCache(c) == [c EXCEPT !.enabled = FALSE]

ClearCache(c) == [c EXCEPT !.attn_map = <<>>]

\* the forward pass of one attention module on one batch
Record(c, t) == IF c.enabled THEN [c EXCEPT !.attn_map = Append(@, t)] ELSE c

\* model.modules() filtered by isinstance(module, MultiHeadAttention)
AttnModules == 1..numLayer

\* the tensor a module produces for batch b of call k
Tensor(k, b) == [call |-> k, batch |-> b]

\* ------------------------------------------------------------- geometry
PatchGridOf(size, p) == <<size[1] \div p[1], size[2] \div p[2]>>

Divisible(size, p) == size[1] % p[1] = 0 /\ size[2] % p[2] = 0

\* torch broadcasting of one axis
Broadcastable(a, b) == a = b \/ a = 1 \/ b = 1

\* a dataloader yields batches until it ends or an iteration raises
Dataloaders ==
    {d \in UNION {[1..n -> BOOLEAN] : n \in 0..MaxBatches} :
        \A b \in 1..(Len(d) - 1) : d[b]}

ImageSizes == {s \in (1..MaxImage) \X (1..MaxImage) : s[1] >= patch[1] /\ s[2] >= patch[2]}

NoResult == [kind |-> "none"]

\* ----------------------------------------------------------------- Init
RollIdle ==
    /\ attn_matrices = <<>>
    /\ rollout = <<>>
    /\ rk = 1
    /\ rpc = "off"
    /\ rerr = "none"

PixIdle ==
    /\ ppc = "off"
    /\ pixel_distance = <<>>
    /\ head = <<1, 1>>
    /\ head_attn_pixel = <<>>
    /\ mean_attention_distance = <<>>
    /\ attn_map_pixel = <<>>

Init ==
    /\ RollIdle
    /\ PixIdle
    /\ numLayer \in 0..MaxLayers
    /\ patch \in (1..MaxPatch) \X (1..MaxPatch)
    /\ cache = [l \in 1..numLayer |-> NewCache]
    /\ pc = "idle"
    /\ fn = "none"
    /\ callNo = 0
    /\ dataloader = <<>>
    /\ image = <<patch[1], patch[2]>>
    /\ bi = 1
    /\ li = 1
    /\ attn_maps = <<>>
    /\ heavy = {}
    /\ err = "none"
    /\ errAt = "none"
    /\ entryClean = TRUE
    /\ result = NoResult

\* ------------------------------------------------------------- the calls
Raise(e, at) ==
    /\ pc' = "failed"
    /\ err' = e
    /\ errAt' = at

\* lines 144-147 / 211-214: entry and the enable loop
Enter(f) ==
    /\ pc = "idle"
    /\ callNo < MaxCalls
    /\ \E d \in Dataloaders, s \in ImageSizes :
        /\ dataloader' = d
        /\ image' = s
    /\ fn' = f
    /\ callNo' = callNo + 1
    /\ entryClean' = \A l \in AttnModules : cache[l] = NewCache
    /\ cache' = [l \in AttnModules |-> EnableCache(cache[l])]
    /\ pc' = "forward"
    /\ bi' = 1
    /\ li' = 1
    /\ attn_maps' = <<>>
    /\ heavy' = {}
    /\ err' = "none"
    /\ errAt' = "none"
    /\ result' = NoResult
    /\ UNCHANGED <<numLayer, patch, rollVars, pixVars>>

CallMaps == Enter("maps")

CallDistance == Enter("distance")

\* lines 151-155 / 218-225: one iteration of the dataloader loop
ForwardBatch ==
    /\ pc = "forward"
    /\ bi <= Len(dataloader)
    /\ dataloader[bi]
    /\ cache' = [l \in AttnModules |-> Record(cache[l], Tensor(callNo, bi))]
    /\ bi' = bi + 1
    /\ UNCHANGED <<rollVars, pixVars, numLayer, patch, pc, fn, callNo, dataloader, image, li,
                   attn_maps, heavy, err, errAt, entryClean, result>>

\* the dataloader or the encoder raises on this batch
ForwardRaise ==
    /\ pc = "forward"
    /\ bi <= Len(dataloader)
    /\ ~dataloader[bi]
    /\ Raise("ForwardError", "forward")
    /\ UNCHANGED <<rollVars, pixVars, numLayer, patch, cache, fn, callNo, dataloader, image, bi, li,
                   attn_maps, heavy, entryClean, result>>

\* line 226: images = torch.cat(images, dim=0)
CatImages ==
    /\ pc = "forward"
    /\ fn = "maps"
    /\ bi > Len(dataloader)
    /\ IF dataloader = <<>>
         THEN Raise("RuntimeError", "cat_images")
         ELSE pc' = "retrieve" /\ UNCHANGED <<err, errAt>>
    /\ UNCHANGED <<rollVars, pixVars, numLayer, patch, cache, fn, callNo, dataloader, image, bi, li,
                   attn_maps, heavy, entryClean, result>>

\* get_attention_distance leaves the loop and starts retrieving (line 158)
EndForward ==
    /\ pc = "forward"
    /\ fn = "distance"
    /\ bi > Len(dataloader)
    /\ pc' = "retrieve"
    /\ UNCHANGED <<rollVars, pixVars, numLayer, patch, cache, fn, callNo, dataloader, image, bi, li,
                   attn_maps, heavy, err, errAt, entryClean, result>>

RetrieveModuleNoClear(c) == DisableCache(c)

\* lines 163-164 / 235-236: module.disable_cache(); module.clear_cache()
RetrieveModule(c) == ClearCache(DisableCache(c))

\* lines 159-164 / 230-236: one module of the retrieval loop; torch.cat raises
\* on an empty list
RetrieveLayer ==
    /\ pc = "retrieve"
    /\ li <= numLayer
    /\ IF cache[li].attn_map = <<>>
         THEN /\ Raise("RuntimeError", "retrieve")
              /\ UNCHANGED <<cache, li, attn_maps>>
         ELSE /\ attn_maps' = Append(attn_maps, cache[li].attn_map)
              /\ cache' = [cache EXCEPT ![li] = RetrieveModule(@)]
              /\ li' = li + 1
              /\ UNCHANGED <<pc, err, errAt>>
    /\ UNCHANGED <<rollVars, pixVars, numLayer, patch, fn, callNo, dataloader, image, bi,
                   heavy, entryClean, result>>

\* line 238: rollout = attn_rollout(attn_maps); attn_matrices[0] of an empty list
RolloutStage ==
    /\ pc = "retrieve"
    /\ fn = "maps"
    /\ li > numLayer
    /\ IF attn_maps = <<>>
         THEN Raise("IndexError", "rollout") /\ UNCHANGED heavy
         ELSE /\ heavy' = heavy \cup {"rollout"}
              /\ pc' = "mapping"
              /\ UNCHANGED <<err, errAt>>
    /\ UNCHANGED <<rollVars, pixVars, numLayer, patch, cache, fn, callNo, dataloader, image, bi, li,
                   attn_maps, entryClean, result>>

\* lines 241-249: floor-divided grid, einops.repeat, return
MapsMapping ==
    /\ pc = "mapping"
    /\ fn = "maps"
    /\ LET g == PatchGridOf(image, patch)
       IN result' = [kind |-> "maps", grid |-> g,
                     shape |-> <<g[1] * patch[1], g[2] * patch[2]>>]
    /\ pc' = "returned"
    /\ UNCHANGED <<rollVars, pixVars, numLayer, patch, cache, fn, callNo, dataloader, image, bi, li,
                   attn_maps, heavy, err, errAt, entryClean>>

\* lines 166-170: image.shape of the last batch, attn_maps[0].shape
ShapeStage ==
    /\ pc = "retrieve"
    /\ fn = "distance"
    /\ li > numLayer
    /\ IF dataloader = <<>>
         THEN Raise("UnboundLocalError", "shape")
         ELSE IF attn_maps = <<>>
           THEN Raise("IndexError", "shape")
           ELSE pc' = "pixel_dist" /\ UNCHANGED <<err, errAt>>
    /\ UNCHANGED <<rollVars, pixVars, numLayer, patch, cache, fn, callNo, dataloader, image, bi, li,
                   attn_maps, heavy, entryClean, result>>

\* line 183: pixel_distance = _pixel_dist_matrix(height, width)
PixelDistStage ==
    /\ pc = "pixel_dist"
    /\ heavy' = heavy \cup {"pixel_distance"}
    /\ pc' = "mapping"
    /\ UNCHANGED <<rollVars, pixVars, numLayer, patch, cache, fn, callNo, dataloader, image, bi, li,
                   attn_maps, err, errAt, entryClean, result>>

\* lines 185-197: einops.repeat on the floor-divided grid, then the product with
\* pixel_distance, which broadcasts only if the expanded axes match the image
DistanceMapping ==
    /\ pc = "mapping"
    /\ fn = "distance"
    /\ LET g == PatchGridOf(image, patch)
           sh == <<g[1] * patch[1], g[2] * patch[2]>>
       IN IF Broadcastable(sh[1], image[1]) /\ Broadcastable(sh[2], image[2])
            THEN /\ result' = [kind |-> "distance", grid |-> g, shape |-> sh]
                 /\ pc' = "returned"
                 /\ UNCHANGED <<err, errAt>>
            ELSE Raise("RuntimeError", "weighting") /\ UNCHANGED result
    /\ UNCHANGED <<rollVars, pixVars, numLayer, patch, cache, fn, callNo, dataloader, image, bi, li,
                   attn_maps, heavy, entryClean>>

\* ------------------------------------------------------- driver claims
\* the tensors this call's forward passes record in one module, in batch order
OwnTensors == [b \in 1..Len(dataloader) |-> Tensor(callNo, b)]

NonDivisible == ~Divisible(image, patch)

AllAccepted == dataloader # <<>> /\ \A b \in 1..Len(dataloader) : dataloader[b]

\* C1: across any sequence of calls, failed ones included, what a call retrieves
\* from a module's cache is exactly what its own forward passes recorded there;
\* no tensor of an earlier call is retrieved.
C1_OnlyOwnTensorsRetrieved ==
    \A l \in 1..Len(attn_maps) : attn_maps[l] = OwnTensors

\* C2: a call entered with every cache disabled and empty that returns normally
\* leaves every cache disabled and with empty storage.
C2_CachesReleasedOnReturn ==
    (pc = "returned" /\ entryClean) =>
        \A l \in AttnModules : ~cache[l].enabled /\ cache[l].attn_map = <<>>

C2_Witness ==
    /\ pc = "returned"
    /\ entryClean
    /\ callNo = MaxCalls
    /\ numLayer = MaxLayers
    /\ Len(dataloader) = MaxBatches
    /\ Len(attn_maps) = numLayer

\* C3: on an empty dataset both entry points fail with EmptyCacheError, raised at
\* the step that retrieves a layer's cache.
C3_EmptyDatasetFailsAtRetrieval ==
    (dataloader = <<>> /\ numLayer > 0 /\ pc \in {"returned", "failed"}) =>
        (pc = "failed" /\ err = "EmptyCacheError" /\ errAt = "retrieve")

\* C4: with an image size the patch size does not divide, both entry points fail
\* with ConfigurationError at mapping time, before the rollout product or the
\* pixel-distance matrix is computed, and never return a result.
C4_NonDivisibleRejectedEagerly ==
    (NonDivisible /\ AllAccepted /\ numLayer > 0) =>
        /\ pc # "returned"
        /\ heavy = {}
        /\ pc = "failed" => (err = "ConfigurationError" /\ errAt = "mapping")

\* the call is over (return or propagated exception): its locals are gone
Unwind ==
    /\ pc \in {"returned", "failed"}
    /\ pc' = "idle"
    /\ fn' = "none"
    /\ dataloader' = <<>>
    /\ image' = <<patch[1], patch[2]>>
    /\ bi' = 1
    /\ li' = 1
    /\ attn_maps' = <<>>
    /\ heavy' = {}
    /\ err' = "none"
    /\ errAt' = "none"
    /\ entryClean' = TRUE
    /\ result' = NoResult
    /\ UNCHANGED <<rollVars, pixVars, numLayer, patch, cache, callNo>>

Next ==
    \/ CallMaps
    \/ CallDistance
    \/ ForwardBatch
    \/ ForwardRaise
    \/ CatImages
    \/ EndForward
    \/ RetrieveLayer
    \/ RolloutStage
    \/ MapsMapping
    \/ ShapeStage
    \/ PixelDistStage
    \/ DistanceMapping
    \/ Unwind

Spec == Init /\ [][Next]_vars

\* ======================================================== attn_rollout
\* the driver is not running
DrvRest ==
    /\ numLayer = 0
    /\ cache = <<>>
    /\ pc = "off"
    /\ fn = "none"
    /\ callNo = 0
    /\ dataloader = <<>>
    /\ bi = 1
    /\ li = 1
    /\ heavy = {}
    /\ err = "none"
    /\ errAt = "none"
    /\ entryClean = TRUE
    /\ result = NoResult

DrvIdle ==
    /\ DrvRest
    /\ patch = <<1, 1>>
    /\ image = <<1, 1>>
    /\ attn_maps = <<>>

Tokens(n) == 0..(n - 1)

RECURSIVE SumTo(_, _)
\* f[0] + ... + f[k]
SumTo(f, k) == IF k < 0 THEN 0 ELSE f[k] + SumTo(f, k - 1)

\* ---- input attention matrices: numerators over the denominator den, every
\* ---- row summing to den
KindSeq == <<"identity", "uniform", "next", "first", "ramp">>

Denom(n) == n * (n + 1)

Weight(kind, n, i, j) ==
    CASE kind = "identity" -> IF i = j THEN Denom(n) ELSE 0
      [] kind = "uniform"  -> n + 1
      [] kind = "next"     -> IF j = (i + 1) % n THEN Denom(n) ELSE 0
      [] kind = "first"    -> IF j = 0 THEN Denom(n) ELSE 0
      [] kind = "ramp"     -> 2 * (j + 1)

AttnOf(kind, n) ==
    [num |-> [i \in Tokens(n) |-> [j \in Tokens(n) |-> Weight(kind, n, i, j)]],
     den |-> Denom(n)]

\* the kind k places after KindSeq[a], cyclically
KindAt(a, k) == KindSeq[((a - 1 + k) % Len(KindSeq)) + 1]

\* ---- the tensor operations of attn_rollout
NumTokens(m) == Cardinality(DOMAIN m.num)

\* torch.eye(n)
Eye(n) ==
    [num |-> [i \in Tokens(n) |-> [j \in Tokens(n) |-> IF i = j THEN 1 ELSE 0]],
     den |-> 1]

ResidFullIdentity(x) ==
    [num |-> [i \in DOMAIN x.num |-> [j \in DOMAIN x.num |->
                 x.num[i][j] + (IF i = j THEN 2 * x.den ELSE 0)]],
     den |-> 2 * x.den]

\* line 262: 0.5 * x + 0.5 * torch.eye(n), for one sample
Resid(x) ==
    [num |-> [i \in DOMAIN x.num |-> [j \in DOMAIN x.num |->
                 x.num[i][j] + (IF i = j THEN x.den ELSE 0)]],
     den |-> 2 * x.den]

\* a matrix product x . y of one sample
MatMul(x, y) ==
    LET n == NumTokens(x)
    IN [num |-> [i \in Tokens(n) |-> [k \in Tokens(n) |->
                    SumTo([j \in Tokens(n) |-> x.num[i][j] * y.num[j][k]], n - 1)]],
        den |-> x.den * y.den]

\* torch.einsum('bij, bjk -> bik', r, a)
Einsum(r, a) == [s \in DOMAIN r |-> MatMul(r[s], a[s])]

ResidLayer(a) == [s \in DOMAIN a |-> Resid(a[s])]

RolloutStepLeft(r, a) == Einsum(ResidLayer(a), r)

\* lines 262-263: one iteration of the loop
RolloutStep(r, a) == Einsum(r, ResidLayer(a))

\* line 261: einops.repeat(torch.eye(n), 'n m -> b n m', b=b)
RolloutStart(b, n) == [s \in 1..b |-> Eye(n)]

RECURSIVE RollFrom(_, _)
RollFrom(r, ms) == IF ms = <<>> THEN r ELSE RollFrom(RolloutStep(r, Head(ms)), Tail(ms))

\* attn_rollout of a non-empty list, as the loop computes it
AttnRollout(ms) == RollFrom(RolloutStart(Len(ms[1]), NumTokens(ms[1][1])), ms)

LayerKinds == UNION {[1..d -> 1..Len(KindSeq)] : d \in 0..(MaxLayers + 1)}

InitRollout ==
    /\ DrvIdle
    /\ PixIdle
    /\ \E n \in 1..MaxTokens, b \in 1..MaxSamples, ks \in LayerKinds,
          shift \in 0..(Len(KindSeq) - 1) :
         attn_matrices = [l \in 1..Len(ks) |->
                            [s \in 1..b |-> AttnOf(KindAt(ks[l], (s - 1) * shift), n)]]
    /\ rollout = <<>>
    /\ rk = 1
    /\ rpc = "start"
    /\ rerr = "none"

\* lines 260-261
RolloutEnter ==
    /\ rpc = "start"
    /\ IF attn_matrices = <<>>
         THEN /\ rpc' = "failed"
              /\ rerr' = "IndexError"
              /\ UNCHANGED rollout
         ELSE /\ rollout' = RolloutStart(Len(attn_matrices[1]), NumTokens(attn_matrices[1][1]))
              /\ rpc' = "loop"
              /\ UNCHANGED rerr
    /\ UNCHANGED <<attn_matrices, rk, drvVars, pixVars>>

\* lines 262-263
RolloutLoop ==
    /\ rpc = "loop"
    /\ rk <= Len(attn_matrices)
    /\ rollout' = RolloutStep(rollout, attn_matrices[rk])
    /\ rk' = rk + 1
    /\ UNCHANGED <<attn_matrices, rpc, rerr, drvVars, pixVars>>

\* line 264
RolloutReturn ==
    /\ rpc = "loop"
    /\ rk > Len(attn_matrices)
    /\ rpc' = "done"
    /\ UNCHANGED <<attn_matrices, rollout, rk, rerr, drvVars, pixVars>>

NextRollout ==
    \/ RolloutEnter
    \/ RolloutLoop
    \/ RolloutReturn

SpecRollout == InitRollout /\ [][NextRollout]_vars

\* ------------------------------------------------------ rollout claims
Front(ms) == SubSeq(ms, 1, Len(ms) - 1)

Last(ms) == ms[Len(ms)]

RECURSIVE PathFlow(_, _, _, _)
\* the sum, over all token paths i = k_m, .., k_0 = j, of the products
\* Am'[k_m, k_(m-1)] * .. * A1'[k_1, k_0], for sample s (numerator)
PathFlow(s, m, i, j) ==
    IF m = 0
      THEN (IF i = j THEN 1 ELSE 0)
      ELSE LET a == Resid(attn_matrices[m][s])
               n == NumTokens(a)
           IN SumTo([k \in Tokens(n) |-> a.num[i][k] * PathFlow(s, m - 1, k, j)], n - 1)

RowSum(m, i) == SumTo(m.num[i], NumTokens(m) - 1)

\* C5: R[b, i, j] is the attention flow from output position i of the last layer
\* back to input position j of the first: the sum over token paths of
\* An'[k_n, k_(n-1)] * .. * A1'[k_1, k_0].
C5_RolloutIsFlowToInput ==
    rpc = "done" =>
        \A s \in DOMAIN rollout : \A i, j \in DOMAIN rollout[s].num :
            rollout[s].num[i][j] = PathFlow(s, Len(attn_matrices), i, j)

\* C6: if every row of every layer sums to 1, every row of the rollout sums to 1.
C6_RolloutRowsSumToOne ==
    rpc = "done" =>
        \A s \in DOMAIN rollout : \A i \in DOMAIN rollout[s].num :
            RowSum(rollout[s], i) = rollout[s].den

C6_Witness ==
    /\ rpc = "done"
    /\ Len(attn_matrices) = MaxLayers + 1
    /\ Len(rollout) = MaxSamples
    /\ NumTokens(rollout[1]) = MaxTokens
    /\ rollout[1] # rollout[2]
    /\ \E i, j \in DOMAIN rollout[1].num :
         rollout[1].num[i][j] \notin {0, rollout[1].den}

C10_EmptyRolloutIsInvalidInput ==
    (attn_matrices = <<>> /\ rpc \in {"done", "failed"}) =>
        (rpc = "failed" /\ rerr = "InvalidInputError")

\* ================================= patch-to-pixel and attention distance
Pixels(h, w) == (0..(h - 1)) \X (0..(w - 1))

\* index of an einops composite axis '(outer inner)'
Compose(outer, inner, innerSize) == outer * innerSize + inner

\* the elementary axes (nh, nw, ph, pw) of the einops patterns
Cells(g, p) == (0..(g[1] - 1)) \X (0..(g[2] - 1)) \X (0..(p[1] - 1)) \X (0..(p[2] - 1))

\* input axis '(nh nw)'
TokenOfCell(c, g) == Compose(c[1], c[2], g[2])

PixelOfCellTiled(c, g, p) == <<Compose(c[3], c[1], g[1]), Compose(c[4], c[2], g[2])>>

\* output axes '(nh ph) (nw pw)'
PixelOfCell(c, g, p) == <<Compose(c[1], c[3], p[1]), Compose(c[2], c[4], p[2])>>

CellOfPixel(yx, g, p) == CHOOSE c \in Cells(g, p) : PixelOfCell(c, g, p) = yx

\* for every output pixel, the input token it copies
TokenMap(g, p) ==
    [yx \in {PixelOfCell(c, g, p) : c \in Cells(g, p)} |->
        TokenOfCell(CellOfPixel(yx, g, p), g)]

Gather(v, tok) == [yx \in DOMAIN tok |-> v[tok[yx]]]

GatherPairs(m, tok) == [q1 \in DOMAIN tok |-> [q2 \in DOMAIN tok |-> m[tok[q1]][tok[q2]]]]

\* lines 244-247: einops.repeat(v, 'b (nh nw) -> b (nh ph) (nw pw)'), one sample
PatchToPixel(v, g, p) == Gather(v, TokenMap(g, p))

\* lines 189-192: einops.repeat(m, 'b (nhx nwx) (nhy nwy) ->
\*                b (nhx phx) (nwx pwx) (nhy phy) (nwy pwy)'), one sample
PatchPairToPixel(m, g, p) == GatherPairs(m, TokenMap(g, p))

\* rollout[:, 0, 1:] of one sample
ClsRow(m) == [t \in 0..(NumTokens(m) - 2) |-> m.num[0][t + 1]]

\* attn_maps[i][:, j, 1:, 1:] of one sample
PatchBlock(m) ==
    [t1 \in 0..(NumTokens(m) - 2) |-> [t2 \in 0..(NumTokens(m) - 2) |->
        m.num[t1 + 1][t2 + 1]]]

\* lines 172-182: dist[x, y][xx, yy] = sqrt((x - xx)^2 + (y - yy)^2); an entry
\* is kept as its radicand
PixelDistMatrix(h, w) ==
    [a \in Pixels(h, w) |-> [b \in Pixels(h, w) |->
        (a[1] - b[1]) * (a[1] - b[1]) + (a[2] - b[2]) * (a[2] - b[2])]]

PixelAt(k, w) == <<k \div w, k % w>>

\* torch.sum over the sample axis of the pixel pair (k, q)
OverSamples(hp, k, q, w) ==
    SumTo([s \in 0..(Len(hp) - 1) |-> hp[s + 1][PixelAt(k, w)][PixelAt(q, w)]],
          Len(hp) - 1)

\* the total weight put on the pixel pairs at distance sqrt(r)
WeightAt(tot, dist, r, w, last) ==
    SumTo([k \in 0..last |->
             SumTo([q \in 0..last |->
                      IF dist[PixelAt(k, w)][PixelAt(q, w)] = r THEN tot[k][q] ELSE 0],
                   last)], last)

WeightedSum(tot, dist, w, last) ==
    [r \in {dist[a][b] : a \in DOMAIN dist, b \in DOMAIN dist} |->
        WeightAt(tot, dist, r, w, last)]

\* lines 194-195: head_attn_pixel * pixel_distance summed over the attended
\* pixel and averaged over sample and source pixel. The value is
\* (sum over radicands r of coef[r] * sqrt(r)) / den.
MeanWeightedDistance(hp, dist, h, w, d) ==
    [coef |-> WeightedSum([k \in 0..(h * w - 1) |-> [q \in 0..(h * w - 1) |->
                              OverSamples(hp, k, q, w)]], dist, w, h * w - 1),
     den |-> d * Len(hp) * h * w]

Geometries ==
    {g \in ((1..MaxImage) \X (1..MaxImage)) \X ((1..MaxPatch) \X (1..MaxPatch)) :
        /\ g[1][1] * g[1][2] <= MaxArea
        /\ Divisible(g[1], g[2])}

InitPixel ==
    /\ DrvRest
    /\ \E g \in Geometries, nl \in 1..MaxLayers, nh \in 1..MaxHeads,
          b \in 1..MaxSamples,
          ks \in ((1..Len(KindSeq)) \X {0}) \cup {<<1, 1>>} :
         LET a == ks[1]
             stride == ks[2]
             grid == PatchGridOf(g[1], g[2])
             n == 1 + grid[1] * grid[2]
         IN /\ image = g[1]
            /\ patch = g[2]
            /\ attn_maps = [i \in 1..nl |-> [s \in 1..b |-> [j \in 1..nh |->
                  AttnOf(KindAt(a, stride * (((i - 1) * b + (s - 1)) * nh + (j - 1))), n)]]]
            /\ rollout = [s \in 1..b |-> AttnOf(KindAt(a, stride * (s + 1)), n)]
    /\ attn_matrices = <<>>
    /\ rk = 1
    /\ rpc = "off"
    /\ rerr = "none"
    /\ ppc = "start"
    /\ pixel_distance = <<>>
    /\ head = <<1, 1>>
    /\ head_attn_pixel = <<>>
    /\ mean_attention_distance = <<>>
    /\ attn_map_pixel = <<>>

\* lines 241-247 of get_attention_maps
ExpandMaps ==
    /\ ppc = "start"
    /\ attn_map_pixel' =
         [s \in DOMAIN rollout |->
            [num |-> PatchToPixel(ClsRow(rollout[s]), PatchGridOf(image, patch), patch),
             den |-> rollout[s].den]]
    /\ ppc' = "maps_done"
    /\ UNCHANGED <<drvVars, rollVars, pixel_distance, head, head_attn_pixel,
                   mean_attention_distance>>

\* lines 183-185 of get_attention_distance
DistanceStart ==
    /\ ppc = "start"
    /\ pixel_distance' = PixelDistMatrix(image[1], image[2])
    /\ ppc' = "heads"
    /\ head' = <<1, 1>>
    /\ mean_attention_distance' = <<>>
    /\ UNCHANGED <<drvVars, rollVars, head_attn_pixel, attn_map_pixel>>

NumHead == Len(attn_maps[1][1])

NextHead(ij) == IF ij[2] < NumHead THEN <<ij[1], ij[2] + 1>> ELSE <<ij[1] + 1, 1>>

\* lines 186-195: one (layer, head) of the loop
DistanceHead ==
    /\ ppc = "heads"
    /\ head[1] <= Len(attn_maps)
    /\ head_attn_pixel' =
         [s \in DOMAIN attn_maps[head[1]] |->
            PatchPairToPixel(PatchBlock(attn_maps[head[1]][s][head[2]]),
                             PatchGridOf(image, patch), patch)]
    /\ mean_attention_distance' =
         [ij \in DOMAIN mean_attention_distance \cup {head} |->
            IF ij = head
              THEN MeanWeightedDistance(head_attn_pixel', pixel_distance,
                                        image[1], image[2],
                                        attn_maps[head[1]][1][head[2]].den)
              ELSE mean_attention_distance[ij]]
    /\ head' = NextHead(head)
    /\ UNCHANGED <<drvVars, rollVars, ppc, pixel_distance, attn_map_pixel>>

\* line 197
DistanceReturn ==
    /\ ppc = "heads"
    /\ head[1] > Len(attn_maps)
    /\ ppc' = "dist_done"
    /\ UNCHANGED <<drvVars, rollVars, pixel_distance, head, head_attn_pixel,
                   mean_attention_distance, attn_map_pixel>>

NextPixel ==
    \/ ExpandMaps
    \/ DistanceStart
    \/ DistanceHead
    \/ DistanceReturn

SpecPixel == InitPixel /\ [][NextPixel]_vars

\* -------------------------------------------------------- pixel claims
Grid == PatchGridOf(image, patch)

\* the patch cell of a pixel, as a token index without the [cls] token
PatchOf(yx) == (yx[1] \div patch[1]) * Grid[2] + (yx[2] \div patch[2])

\* each patch token attends only to itself
IdentityOnPatches(m) ==
    \A t1, t2 \in 1..(NumTokens(m) - 1) :
        m.num[t1][t2] = (IF t1 = t2 THEN m.den ELSE 0)

IsZeroDistance(d) == \A r \in DOMAIN d.coef : r = 0 \/ d.coef[r] = 0

\* C8: for attention that is the identity on patch tokens in every layer and
\* head, the mean attention distance is 0 for every (layer, head), whatever the
\* patch size and grid.
C8_IdentityAttentionHasZeroDistance ==
    (/\ ppc = "dist_done"
     /\ \A i \in DOMAIN attn_maps : \A s \in DOMAIN attn_maps[i] :
          \A j \in DOMAIN attn_maps[i][s] : IdentityOnPatches(attn_maps[i][s][j]))
    => \A ij \in DOMAIN mean_attention_distance :
          IsZeroDistance(mean_attention_distance[ij])

\* the head the loop expanded last
LastHead == IF head[2] > 1 THEN <<head[1], head[2] - 1>> ELSE <<head[1] - 1, NumHead>>

\* C9: patch-to-pixel expansion is nearest-neighbour replication: the pixel map
\* has shape (nh*ph, nw*pw) and pixel (y, x) holds
\* rollout[b, 0, 1 + (y div ph)*nw + (x div pw)]; the pixel-pair attention of
\* get_attention_distance replicates the same way on the query and key axes.
C9_UpsamplingIsReplication ==
    /\ ppc = "maps_done" =>
         \A s \in DOMAIN attn_map_pixel :
            /\ DOMAIN attn_map_pixel[s].num = Pixels(Grid[1] * patch[1], Grid[2] * patch[2])
            /\ \A yx \in DOMAIN attn_map_pixel[s].num :
                 attn_map_pixel[s].num[yx] = rollout[s].num[0][1 + PatchOf(yx)]
    /\ (ppc \in {"heads", "dist_done"} /\ head # <<1, 1>>) =>
         \A s \in DOMAIN head_attn_pixel :
            /\ DOMAIN head_attn_pixel[s] = Pixels(Grid[1] * patch[1], Grid[2] * patch[2])
            /\ \A q1 \in DOMAIN head_attn_pixel[s] :
                 /\ DOMAIN head_attn_pixel[s][q1] = DOMAIN head_attn_pixel[s]
                 /\ \A q2 \in DOMAIN head_attn_pixel[s] :
                      head_attn_pixel[s][q1][q2] =
                        attn_maps[LastHead[1]][s][LastHead[2]].num[1 + PatchOf(q1)][1 + PatchOf(q2)]

\* a map of a 2x2 grid of patches two pixels high whose four patches all differ
C9_Witness ==
    /\ ppc = "maps_done"
    /\ Grid = <<2, 2>>
    /\ patch[1] = 2
    /\ Len(attn_map_pixel) = MaxSamples
    /\ \A a, b \in DOMAIN attn_map_pixel[1].num :
         PatchOf(a) # PatchOf(b) => attn_map_pixel[1].num[a] # attn_map_pixel[1].num[b]

====
